---- MODULE Spec2Model ----
(***************************************************************************)
(* Model of src/src/GENERATORASCII.py: the VideoASCIIConverter frame       *)
(* pipeline (apply_image_effects, create_depth_map, frame_to_ascii), the   *)
(* text and MP4 conversion loops (convert_to_txt, convert_to_mp4), the     *)
(* configuration load/save and the command-line driver main().            *)
(*                                                                         *)
(* Frames are modelled as uniform frames: a width W, a height H and one    *)
(* 8-bit sample s shared by every pixel and channel.  On such frames the   *)
(* OpenCV routines the code calls have a determined result (a Gaussian     *)
(* blur or a resize of a constant image is that constant, Canny finds no   *)
(* edge, BGR2GRAY of (s,s,s) is s), so the pipeline is modelled exactly.   *)
(* Real-valued settings are exact rationals <<n, d>>; where the code's     *)
(* float32/float64 arithmetic can differ from the exact value, the model   *)
(* says so at the conversion concerned.                                    *)
(***************************************************************************)
EXTENDS Integers, Sequences, FiniteSets, TLC

VARIABLES
    args,       \* the parsed command line (argparse Namespace), fixed per run
    cfgfile,    \* content of the --load-config file, or NoFile
    video,      \* the input video: NoVideo, or [W, H, pixels, nframes]
    np2,        \* TRUE: NumPy >= 2 scalar promotion (NEP 50); FALSE: NumPy < 2
    settings,   \* converter.settings
    pc,         \* position of main()
    saved,      \* content written by save_config, or NoFile
    opened,     \* TRUE once convert_to_txt has opened (truncated) the output file
    nread,      \* frames read from the capture so far
    out,        \* ASCII frames written to the output file, or printed by the preview
    last,       \* outcome of the last frame_to_ascii call, or Idle
    canvas      \* <<output_width, output_height>> of convert_to_mp4's video writer

vars == <<args, cfgfile, video, np2, settings, pc, saved, opened, nread, out, last,
          canvas>>

\* a path that names no file
NoFile == [missing |-> "file"]
NoVideo == [missing |-> "video"]
Idle == [kind |-> "idle"]

----------------------------------------------------------------------------
(* Bounds of the model *)

\* frame widths and heights range over 0..MaxDim
MaxDim == 4
\* a video holds 1..MaxFrames frames
MaxFrames == 2

\* largest value of an unsigned 8-bit sample (np.uint8)
MaxSample == 255

----------------------------------------------------------------------------
(* Exact rationals <<n, d>>, d > 0, in lowest terms *)

RECURSIVE GCD(_, _)
GCD(a, b) == IF b = 0 THEN a ELSE GCD(b, a % b)

Abs(x) == IF x < 0 THEN 0 - x ELSE x

Rat(n, d) ==
    LET sn == IF d < 0 THEN 0 - n ELSE n
        sd == Abs(d)
        g  == GCD(Abs(sn), sd)
    IN  <<sn \div g, sd \div g>>

RInt(k) == <<k, 1>>
RZero == <<0, 1>>
ROne == <<1, 1>>
RHalf == <<1, 2>>
RAdd(x, y) == Rat(x[1] * y[2] + y[1] * x[2], x[2] * y[2])
RSub(x, y) == Rat(x[1] * y[2] - y[1] * x[2], x[2] * y[2])
RMul(x, y) == Rat(x[1] * y[1], x[2] * y[2])
RLess(x, y) == x[1] * y[2] < y[1] * x[2]
RFloor(x) == x[1] \div x[2]
RIsInt(x) == x[2] = 1

\* np.clip(v, 0, 1)
Clip01(v) == IF RLess(v, RZero) THEN RZero ELSE IF RLess(ROne, v) THEN ROne ELSE v

\* int(x) of a Python float: truncation toward zero
Trunc(x) == IF x[1] >= 0 THEN x[1] \div x[2] ELSE 0 - ((0 - x[1]) \div x[2])

----------------------------------------------------------------------------
(* __init__: the glyph ramps and the default settings *)

CharSets == {"simple", "standard", "detailed", "gradient", "blocks"}

\* len(self.ascii_chars[name])
RampLen(name) ==
    CASE name = "simple"   -> 10
      [] name = "standard" -> 70
      [] name = "detailed" -> 70
      [] name = "gradient" -> 5
      [] name = "blocks"   -> 9

ColorModes == {"grayscale", "color", "ansi"}

DefaultSettings ==
    [width |-> 80, height |-> 24, fps |-> 10, char_set |-> "standard",
     color_mode |-> "grayscale", contrast |-> ROne, brightness |-> RZero,
     gamma |-> ROne, invert |-> FALSE, edge_detection |-> FALSE,
     depth_effect |-> FALSE, blur |-> RZero, quality |-> "medium"]

----------------------------------------------------------------------------
(* apply_image_effects *)

\* an exception of type `name` raised at source line `line`, after `stages` ran
Err(name, line, stages) ==
    [kind |-> "error", err |-> name, line |-> line, stages |-> stages]

RECURSIVE RPow(_, _)
RPow(x, k) == IF k = 0 THEN ROne ELSE RMul(x, RPow(x, k - 1))

\* floor of the square root of a natural number below (MaxSample + 1)^2
ISqrt(x) == CHOOSE k \in 0..MaxSample : k * k <= x /\ (k + 1) * (k + 1) > x

\* The value frame * 255 that line 80 converts to uint8, for a sample whose
\* normalised value is v: inf (division of a zero sample), else its floor fl and
\* whether it is an integer (int).
Scaled(v) ==
    LET p == RMul(v, RInt(MaxSample))
    IN  [inf |-> FALSE, fl |-> RFloor(p), int |-> RIsInt(p)]

\* np.power(frame, 1.0 / gamma) * 255, gamma # 0.  The exponent e = 1/gamma is
\* an integer k >= 1, an integer k <= -1, or 1/2 (the values the model draws).
GammaScaled(v, gamma) ==
    LET e == Rat(gamma[2], gamma[1])
    IN  CASE e[2] = 1 /\ e[1] >= 1 -> Scaled(RPow(v, e[1]))
          [] e[2] = 1 /\ e[1] <= -1 ->
                IF v[1] = 0
                THEN [inf |-> TRUE, fl |-> 0, int |-> FALSE]
                ELSE Scaled(RPow(<<v[2], v[1]>>, 0 - e[1]))
          [] e = RHalf ->
                LET x == RMul(v, RInt(MaxSample * MaxSample))
                    r == ISqrt(RFloor(x))
                IN  [inf |-> FALSE, fl |-> r, int |-> RIsInt(x) /\ r * r = x[1]]

\* pre lies in [0, 255] (the samples are never negative: every stage maps
\* [0, inf) into [0, inf])
InByteRange(pre) ==
    ~pre.inf /\ (pre.fl < MaxSample \/ (pre.fl = MaxSample /\ pre.int))

\* (frame * 255).astype(np.uint8): the outcomes of the float32 -> uint8 cast.
\* In range the cast truncates; when a tone stage ran, float32 rounding can
\* leave an exact integer value just below it, so the cast may give one less
\* (not for multiples of 255: 0.0, 1.0, 2.0 are exact).  Out of range (and for
\* inf) the C cast is undefined: any byte can result.
ToUint8(pre, toned) ==
    IF pre.inf \/ pre.fl > MaxSample THEN 0..MaxSample
    ELSE {pre.fl} \cup
         (IF toned /\ pre.int /\ pre.fl % MaxSample # 0 THEN {pre.fl - 1} ELSE {})

\* kernel_size of the blur stage, lines 84-86
KernelSize(blur) ==
    LET k == IF Trunc(RMul(blur, RInt(5))) > 1 THEN Trunc(RMul(blur, RInt(5))) ELSE 1
    IN  IF k % 2 = 0 THEN k + 1 ELSE k

\* lines 67-69
Brightness(st, t) ==
    IF st.brightness # RZero
    THEN [v |-> Clip01(RAdd(t.v, st.brightness)), stages |-> Append(t.stages, "brightness")]
    ELSE t

\* lines 71-73
Contrast(st, t) ==
    IF st.contrast # ROne
    THEN [v |-> Clip01(RAdd(RMul(RSub(t.v, RHalf), st.contrast), RHalf)),
          stages |-> Append(t.stages, "contrast")]
    ELSE t

\* lines 62-80, up to the conversion back to uint8: the outcomes
\* [kind |-> "tone", pre, s, stages] or a ZeroDivisionError
ToneOutcomes(st, s) ==
    LET t0 == [v |-> Rat(s, MaxSample), stages |-> <<>>]
        t2 == Contrast(st, Brightness(st, t0))
    IN  IF st.gamma # ROne
        THEN IF st.gamma = RZero
             THEN {Err("ZeroDivisionError", 77, t2.stages)}
             ELSE LET pre == GammaScaled(t2.v, st.gamma)
                      stg == Append(t2.stages, "gamma")
                  IN  {[kind |-> "tone", pre |-> pre, s |-> u, stages |-> stg]
                          : u \in ToUint8(pre, TRUE)}
        ELSE LET pre == Scaled(t2.v)
             IN  {[kind |-> "tone", pre |-> pre, s |-> u, stages |-> t2.stages]
                     : u \in ToUint8(pre, t2.stages # <<>>)}

\* lines 82-87 on a uniform frame: cv2.GaussianBlur rejects an empty image and
\* leaves a constant image unchanged
Blur(st, f) ==
    IF f.kind = "frame" /\ RLess(RZero, st.blur)
    THEN IF f.W = 0 \/ f.H = 0
         THEN Err("cv2.error", 87, Append(f.stages, "blur"))
         ELSE [f EXCEPT !.stages = Append(@, "blur"), !.ksize = KernelSize(st.blur)]
    ELSE f

\* lines 89-93 on a uniform frame: cv2.cvtColor rejects an empty image, and
\* cv2.Canny finds no edge in a constant image (every sample becomes 0)
Edge(st, f) ==
    IF f.kind = "frame" /\ st.edge_detection
    THEN IF f.W = 0 \/ f.H = 0
         THEN Err("cv2.error", 91, Append(f.stages, "edge"))
         ELSE [f EXCEPT !.stages = Append(@, "edge"), !.s = 0]
    ELSE f

\* lines 95-97
Invert(st, f) ==
    IF f.kind = "frame" /\ st.invert
    THEN [f EXCEPT !.stages = Append(@, "invert"), !.s = MaxSample - @]
    ELSE f

\* ApplyImageEffects with the invert stage moved before blur and edge detection
ApplyImageEffectsInvertEarly(st, frame) ==
    { Edge(st, Blur(st, Invert(st,
        IF t.kind = "error" THEN t
        ELSE [kind |-> "frame", W |-> frame.W, H |-> frame.H, s |-> t.s,
              pre |-> t.pre, ksize |-> 0, stages |-> t.stages])))
      : t \in ToneOutcomes(st, frame.s) }

\* apply_image_effects(frame): the set of outcomes, each an error or
\* [kind |-> "frame", W, H, s, pre, ksize, stages]
ApplyImageEffects(st, frame) ==
    { Invert(st, Edge(st, Blur(st,
        IF t.kind = "error" THEN t
        ELSE [kind |-> "frame", W |-> frame.W, H |-> frame.H, s |-> t.s,
              pre |-> t.pre, ksize |-> 0, stages |-> t.stages])))
      : t \in ToneOutcomes(st, frame.s) }

----------------------------------------------------------------------------
(* create_depth_map and frame_to_ascii *)

\* create_depth_map(frame), lines 101-112, on a uniform frame: the 15x15 blur
\* of a constant image is that constant, absdiff is 0 everywhere, and
\* cv2.normalize of a constant image gives 0.  The map has the size of the
\* frame it is given.
CreateDepthMap(f) == [W |-> f.W, H |-> f.H, s |-> 0]

\* (gray_frame * 0.7 + depth_map * 0.3).astype(np.uint8), line 145, float64.
\* For depth 0 the product s * 0.7 falls just below the exact integer for
\* s = 90, 170, 180, and the cast truncates to one less.
Fuse(s, d) ==
    LET exact == (7 * s + 3 * d) \div 10
    IN  IF d = 0 /\ s \in {90, 170, 180} THEN exact - 1 ELSE exact

\* pixel_value * (len(chars) - 1), line 156: pixel_value is an np.uint8 scalar.
\* NumPy >= 2 keeps the product in uint8 (it wraps modulo 256); NumPy < 2
\* promotes it to int64.
ScalarMul(s, k, nep50) == IF nep50 THEN (s * k) % (MaxSample + 1) ELSE s * k

\* char_index = int(pixel_value * (len(chars) - 1) / 255), line 156
CharIndex(s, n, nep50) == ScalarMul(s, n - 1, nep50) \div MaxSample

\* NewHeight with round-half-up in place of int()
NewHeightRounded(newWidth, aspect) ==
    RFloor(RAdd(RMul(RMul(RInt(newWidth), <<aspect[2], aspect[1]>>), RHalf), RHalf))

\* new_height = int(new_width / aspect_ratio * 0.5), line 127 (aspect # 0)
NewHeight(newWidth, aspect) ==
    Trunc(RMul(RMul(RInt(newWidth), <<aspect[2], aspect[1]>>), RHalf))

\* lines 129-130
ClampHeight(st, h) == IF st.height > 0 /\ st.height < h THEN st.height ELSE h

\* lines 140-145: the depth map is made from the frame line 132 has resized
DepthStage(st, g) ==
    IF st.depth_effect
    THEN LET dm == CreateDepthMap(g)
         IN  [s |-> Fuse(g.s, dm.s), depthIn |-> <<dm.W, dm.H>>]
    ELSE [s |-> g.s, depthIn |-> <<>>]

\* lines 119-160 applied to the frame f that apply_image_effects returned
Render(st, nep50, f) ==
    IF f.H = 0 THEN Err("ZeroDivisionError", 125, f.stages)
    ELSE IF f.W = 0 THEN Err("ZeroDivisionError", 127, f.stages)
    ELSE
      LET newWidth  == st.width
          newHeight == ClampHeight(st, NewHeight(newWidth, Rat(f.W, f.H)))
      IN  IF newWidth <= 0 \/ newHeight <= 0
          THEN Err("cv2.error", 132, Append(f.stages, "resize"))
          ELSE
            LET g == [W |-> newWidth, H |-> newHeight, s |-> f.s]
                d == DepthStage(st, g)
            IN  IF st.char_set \notin CharSets
                THEN Err("KeyError", 148, Append(f.stages, "resize"))
                ELSE [kind |-> "grid", cols |-> newWidth, rows |-> newHeight,
                      index |-> CharIndex(d.s, RampLen(st.char_set), nep50),
                      ramp |-> st.char_set, sample |-> d.s, toned |-> f.s,
                      pre |-> f.pre, depthIn |-> d.depthIn, src |-> <<f.W, f.H>>,
                      stages |-> Append(f.stages, "resize")]

\* frame_to_ascii(frame): the set of outcomes, each an error or a grid of
\* rows x cols cells that all hold the glyph ramp[index]
FrameToAscii(st, nep50, frame) ==
    { IF f.kind = "error" THEN f ELSE Render(st, nep50, f)
      : f \in ApplyImageEffects(st, frame) }

----------------------------------------------------------------------------
(* load_config, save_config, convert_to_txt, convert_to_mp4 and main *)

\* dict.update: the keys of d take d's values
Update(s, d) ==
    [k \in DOMAIN s \cup DOMAIN d |-> IF k \in DOMAIN d THEN d[k] ELSE s[k]]

\* load_config(config_path), lines 370-378: a missing file changes nothing
LoadConfig(st, file) == IF file = NoFile THEN st ELSE Update(st, file)

\* the dictionary of lines 422-435
CommandLineSettings(a) ==
    [width |-> a.width, height |-> a.height, fps |-> a.fps,
     char_set |-> a.char_set, quality |-> a.quality, contrast |-> a.contrast,
     brightness |-> a.brightness, gamma |-> a.gamma, blur |-> a.blur,
     invert |-> a.invert, edge_detection |-> a.edge_detection,
     depth_effect |-> a.depth_effect]

\* frame_skip = max(1, int(original_fps / self.settings['fps'])), line 171 (fps # 0)
FrameSkip(originalFps, fps) ==
    LET q == Trunc(Rat(originalFps, fps)) IN IF q > 1 THEN q ELSE 1

\* main, lines 417-419
MainLoadConfig ==
    /\ pc = "load_config"
    /\ settings' = IF args.load_config THEN LoadConfig(settings, cfgfile) ELSE settings
    /\ pc' = "update"
    /\ UNCHANGED <<args, cfgfile, video, np2, saved, opened, nread, out, last>>
    /\ UNCHANGED canvas

\* main, lines 421-435
MainUpdateSettings ==
    /\ pc = "update"
    /\ settings' = Update(settings, CommandLineSettings(args))
    /\ pc' = "save_config"
    /\ UNCHANGED <<args, cfgfile, video, np2, saved, opened, nread, out, last>>
    /\ UNCHANGED canvas

\* main, lines 437-439, and save_config, lines 364-368
MainSaveConfig ==
    /\ pc = "save_config"
    /\ saved' = IF args.save_config THEN settings ELSE saved
    /\ pc' = "dispatch"
    /\ UNCHANGED <<args, cfgfile, video, np2, settings, opened, nread, out, last>>
    /\ UNCHANGED canvas

\* main, lines 441-452: the preview renders the first frame; load_video and
\* frame_to_ascii run outside any try block, so their exceptions end the program
MainPreview ==
    /\ pc = "dispatch"
    /\ args.preview
    /\ IF video = NoVideo
       THEN /\ pc' = "crashed"
            /\ last' = Err("FileNotFoundError", 54, <<>>)
            /\ UNCHANGED <<nread, out>>
       ELSE \E s \in video.pixels :
            \E r \in FrameToAscii(settings, np2, [W |-> video.W, H |-> video.H, s |-> s]) :
               /\ last' = r
               /\ nread' = nread + 1
               /\ IF r.kind = "error"
                  THEN pc' = "crashed" /\ out' = out
                  ELSE pc' = "done" /\ out' = Append(out, r)
    /\ UNCHANGED <<args, cfgfile, video, np2, settings, saved, opened>>
    /\ UNCHANGED canvas

\* main, lines 454-464, and convert_to_txt, lines 162-181: the input is
\* checked, the frame skip computed and the output file opened for writing
MainConvertStart ==
    /\ pc = "dispatch"
    /\ ~args.preview
    /\ args.format = "txt"
    /\ IF video = NoVideo
       THEN pc' = "exit1" /\ last' = Err("InputNotFound", 456, <<>>) /\ opened' = opened
       ELSE IF settings.fps = 0
       THEN pc' = "exit1" /\ last' = Err("ZeroDivisionError", 171, <<>>) /\ opened' = opened
       ELSE pc' = "loop" /\ last' = last /\ opened' = TRUE
    /\ UNCHANGED <<args, cfgfile, video, np2, settings, saved, nread, out>>
    /\ UNCHANGED canvas

\* convert_to_txt, lines 183-199: one iteration of the loop on a frame the
\* capture delivers; an exception of frame_to_ascii reaches main's handler
\* (lines 473-475)
ConvertFrame ==
    /\ pc = "loop"
    /\ nread < video.nframes
    /\ nread' = nread + 1
    /\ IF nread % FrameSkip(video.fps, settings.fps) = 0
       THEN \E s \in video.pixels :
            \E r \in FrameToAscii(settings, np2, [W |-> video.W, H |-> video.H, s |-> s]) :
               /\ last' = r
               /\ IF r.kind = "error"
                  THEN pc' = "exit1" /\ out' = out
                  ELSE pc' = pc /\ out' = Append(out, r)
       ELSE UNCHANGED <<pc, out, last>>
    /\ UNCHANGED <<args, cfgfile, video, np2, settings, saved, opened>>
    /\ UNCHANGED canvas

\* convert_to_txt, lines 184-186 and 201-202: the capture is exhausted
ConvertFinish ==
    /\ pc = "loop"
    /\ nread = video.nframes
    /\ pc' = "done"
    /\ UNCHANGED <<args, cfgfile, video, np2, settings, saved, opened, nread, out, last>>
    /\ UNCHANGED canvas

\* char_width and char_height of convert_to_mp4, lines 308-309
CharWidth == 8
CharHeight == 16

\* lines 310-315: the size of the output video for the first frame's grid
\* (lines is never empty), each dimension made even
OutputSize(g) ==
    LET w == g.cols * CharWidth
        h == g.rows * CharHeight
    IN  <<w + (w % 2), h + (h % 2)>>

\* lines 336-349: the rectangles cv2.rectangle is called with for the grid g on
\* an image of the given size, corners (x0, y0) and (x1, y1); every cell of g
\* holds ramp[g.index], and index 0 is the space of every ramp
Rectangles(g, size) ==
    { [x0 |-> j * CharWidth, y0 |-> i * CharHeight,
       x1 |-> j * CharWidth + CharWidth, y1 |-> i * CharHeight + CharHeight] :
        <<i, j>> \in { c \in (0..(g.rows - 1)) \X (0..(g.cols - 1)) :
                        /\ c[1] * CharHeight + CharHeight < size[2]
                        /\ c[2] * CharWidth + CharWidth < size[1]
                        /\ g.index # 0 } }

\* main, lines 454-468, and convert_to_mp4, lines 282-325: the first frame is
\* rendered to size the video writer, and the capture is rewound
MainMp4Start ==
    /\ pc = "dispatch"
    /\ ~args.preview
    /\ args.format = "mp4"
    /\ IF video = NoVideo
       THEN /\ pc' = "exit1" /\ last' = Err("InputNotFound", 456, <<>>)
            /\ UNCHANGED <<opened, canvas>>
       ELSE IF settings.fps = 0
       THEN /\ pc' = "exit1" /\ last' = Err("ZeroDivisionError", 291, <<>>)
            /\ UNCHANGED <<opened, canvas>>
       ELSE \E s \in video.pixels :
            \E r \in FrameToAscii(settings, np2, [W |-> video.W, H |-> video.H, s |-> s]) :
               /\ last' = r
               /\ IF r.kind = "error"
                  THEN pc' = "exit1" /\ UNCHANGED <<opened, canvas>>
                  ELSE pc' = "mp4loop" /\ opened' = TRUE /\ canvas' = OutputSize(r)
    /\ UNCHANGED <<args, cfgfile, video, np2, settings, saved, nread, out>>

\* convert_to_mp4, lines 327-358: one iteration of the loop; the image drawn
\* for the frame is written to the video
Mp4Frame ==
    /\ pc = "mp4loop"
    /\ nread < video.nframes
    /\ nread' = nread + 1
    /\ IF nread % FrameSkip(video.fps, settings.fps) = 0
       THEN \E s \in video.pixels :
            \E r \in FrameToAscii(settings, np2, [W |-> video.W, H |-> video.H, s |-> s]) :
               /\ last' = r
               /\ IF r.kind = "error"
                  THEN pc' = "exit1" /\ out' = out
                  ELSE /\ pc' = pc
                       /\ out' = Append(out, [kind |-> "image", size |-> canvas,
                                              rects |-> Rectangles(r, canvas)])
       ELSE UNCHANGED <<pc, out, last>>
    /\ UNCHANGED <<args, cfgfile, video, np2, settings, saved, opened, canvas>>

\* convert_to_mp4, lines 328-330 and 360-362: the capture is exhausted
Mp4Finish ==
    /\ pc = "mp4loop"
    /\ nread = video.nframes
    /\ pc' = "done"
    /\ UNCHANGED <<args, cfgfile, video, np2, settings, saved, opened, nread, out, last,
                   canvas>>

Next ==
    \/ MainLoadConfig
    \/ MainUpdateSettings
    \/ MainSaveConfig
    \/ MainPreview
    \/ MainConvertStart
    \/ ConvertFrame
    \/ ConvertFinish
    \/ MainMp4Start
    \/ Mp4Frame
    \/ Mp4Finish

----------------------------------------------------------------------------
(* The inputs: command lines, configuration files and videos *)

\* argparse's defaults, lines 384-410: the Namespace of an empty command line.
\* `given` is the set of options written on the command line; the Namespace
\* does not record it, and no code reads it.
DefaultArgs ==
    [format |-> "txt", width |-> 80, height |-> 24, fps |-> 10,
     char_set |-> "standard", quality |-> "medium", contrast |-> ROne,
     brightness |-> RZero, gamma |-> ROne, blur |-> RZero, invert |-> FALSE,
     edge_detection |-> FALSE, depth_effect |-> FALSE,
     load_config |-> FALSE, save_config |-> FALSE, preview |-> FALSE,
     given |-> {}]

\* parse_args, line 412, on a command line that writes the options of d that
\* differ from their default, and those of `also` with their value in d
CommandLine(d, also) ==
    Update(DefaultArgs,
           Update(d, [given |-> {k \in DOMAIN d : d[k] # DefaultArgs[k]} \cup also]))

\* command lines that vary the grid size and the depth effect
ResizeArgs ==
    { CommandLine(d, {}) :
        d \in [width : {1, 2, 3, 10}, height : {0, 1, 2}, fps : {5, 10},
               depth_effect : BOOLEAN, preview : BOOLEAN] }

\* command lines that vary the stages of apply_image_effects
ToneArgs ==
    { CommandLine(d, {}) :
        d \in [brightness : {<<-1, 1>>, <<-1, 2>>, RZero, RHalf, ROne},
               contrast : {<<-1, 1>>, RZero, RHalf, ROne, <<2, 1>>},
               gamma : {<<-1, 1>>, <<-1, 2>>, RZero, RHalf, ROne, <<2, 1>>},
               blur : {RZero, RHalf}, edge_detection : BOOLEAN, invert : BOOLEAN,
               width : {10}, char_set : {"simple"}] }

\* command lines that vary the glyph ramp
RampArgs ==
    { CommandLine(d, {}) :
        d \in [char_set : CharSets, brightness : {RZero, ROne},
               depth_effect : BOOLEAN, width : {10}] }

\* command lines that render an MP4 video
Mp4Args ==
    { CommandLine(d, {}) :
        d \in [format : {"mp4"}, width : {1, 2, 3}, height : {0, 2}] }

\* command lines that load and save a configuration
ConfigArgs ==
    { CommandLine(d, also) :
        d \in [load_config : BOOLEAN, save_config : BOOLEAN, preview : BOOLEAN,
               width : {10, 80}, gamma : {ROne, <<2, 1>>}],
        also \in {{}, {"width"}} }

\* contents of a configuration file (json.load accepts any mapping)
ConfigFiles ==
    { [char_set |-> "fancy"],
      [color_mode |-> "rainbow"],
      [color_mode |-> "ansi", width |-> 3, fps |-> 5],
      [gamma |-> RZero, contrast |-> RZero, invert |-> TRUE],
      Update(DefaultSettings, [width |-> 2, height |-> 0, char_set |-> "blocks",
                               brightness |-> RHalf]) }

Dims == 0..MaxDim

\* a video of 1..MaxFrames frames of W x H pixels, each frame uniform with a
\* sample of `pixels`
Videos(pixels, fpss) ==
    [W : Dims, H : Dims, pixels : {pixels}, nframes : 1..MaxFrames, fps : fpss]

InitFrom(A, V) ==
    /\ args \in A
    /\ cfgfile \in (IF args.load_config THEN ConfigFiles \cup {NoFile} ELSE {NoFile})
    /\ video \in V
    /\ np2 \in BOOLEAN
    /\ settings = DefaultSettings
    /\ pc = "load_config"
    /\ saved = NoFile
    /\ opened = FALSE
    /\ nread = 0
    /\ out = <<>>
    /\ last = Idle
    /\ canvas = <<0, 0>>

Init ==
    \/ InitFrom(ResizeArgs, Videos({0, 200}, {10}))
    \/ InitFrom(ToneArgs, {[W |-> 2, H |-> 1, pixels |-> {0, 1, 64, 128, 255},
                            nframes |-> 1, fps |-> 10]})
    \/ InitFrom(RampArgs, {[W |-> 2, H |-> 1, pixels |-> 0..MaxSample,
                            nframes |-> 1, fps |-> 10]})
    \/ InitFrom(Mp4Args, Videos({0}, {10}) \cup Videos({200}, {10}) \cup {NoVideo})
    \/ InitFrom(ConfigArgs, {NoVideo,
                             [W |-> 4, H |-> 2, pixels |-> {128}, nframes |-> 2, fps |-> 30],
                             [W |-> 4, H |-> 3, pixels |-> {90}, nframes |-> 1, fps |-> 10]})

Spec == Init /\ [][Next]_vars

----------------------------------------------------------------------------
(* Properties *)

Contains(seq, x) == \E i \in 1..Len(seq) : seq[i] = x

\* frame_to_ascii has returned a grid
Rendered == last.kind = "grid"

\* frame_to_ascii has raised, at one of its lines or in apply_image_effects
FrameFailed == last.kind = "error" /\ last.line \in {77, 87, 91, 125, 127, 132, 148}

\* frame_to_ascii got as far as the resize of line 132
ReachedResize == Rendered \/ (last.kind = "error" /\ last.line = 132)

\* C1: for a source frame of width and height >= 1, a configured width >= 1 and
\* a configured height >= 0, frame_to_ascii yields a grid with exactly `width`
\* columns, at most `height` rows when height > 0, and at least one row.
C1_GridShape ==
    (/\ ReachedResize
     /\ video.W >= 1 /\ video.H >= 1
     /\ settings.width >= 1 /\ settings.height >= 0)
    => /\ Rendered
       /\ last.cols = settings.width
       /\ last.rows >= 1
       /\ (settings.height > 0 => last.rows <= settings.height)

\* C2: the ramp index computed from an 8-bit sample s for a ramp of length N is
\* floor(s * (N - 1) / 255) and lies in 0..N-1.
C2_IndexFormula ==
    Rendered =>
        /\ last.index = (last.sample * (RampLen(last.ramp) - 1)) \div MaxSample
        /\ last.index \in 0..(RampLen(last.ramp) - 1)

\* C3: for every sample and every finite brightness, contrast and gamma, the
\* value that the tone adjustment converts back to 8 bits lies in [0, 255].
C3_ToneInRange == Rendered => InByteRange(last.pre)

\* C4: a frame of zero width or height makes frame_to_ascii fail at once with
\* an input error of its own (no stage has run, and the error is not an
\* arithmetic or library fault); it never returns a grid.
C4_ZeroAreaRejected ==
    ((Rendered \/ FrameFailed) /\ (video.W = 0 \/ video.H = 0))
    => /\ last.kind = "error"
       /\ last.stages = <<>>
       /\ last.err \notin {"ZeroDivisionError", "cv2.error", "KeyError"}

\* C5: with contrast 0 or gamma 0, no frame is processed with that value: the
\* division 1/gamma is never performed with gamma = 0 and a contrast of 0 is
\* never applied to the samples.
C5_ZeroRejected ==
    (Rendered \/ FrameFailed)
    => /\ ~(last.kind = "error" /\ last.line = 77)
       /\ (settings.contrast = RZero => ~Contains(last.stages, "contrast"))

\* the exact value Tw / (W / H) * 0.5 for the grid `last`
ExactRows == Rat(settings.width * last.src[2], 2 * last.src[1])

\* C6 as stated: with the height unconstrained, the row count is
\* Tw / (W / H) * 0.5 rounded to the nearest integer, a tie going either way.
C6_RowsRounded ==
    (Rendered /\ settings.height = 0)
    => last.rows \in {RFloor(RAdd(ExactRows, RHalf)),
                      0 - RFloor(RSub(RHalf, ExactRows))}

\* C6 as amended: with the height unconstrained, the row count is
\* Tw / (W / H) * 0.5 truncated toward zero (10 columns by 2 rows for Tw = 10
\* and a 2:1 source); a grid is returned only when that is at least 1, and
\* cv2.resize raises when it is 0.
C6_RowsTruncated ==
    /\ (Rendered /\ settings.height = 0)
       => /\ last.cols = settings.width
          /\ last.rows * 2 * last.src[1] <= settings.width * last.src[2]
          /\ (last.rows + 1) * 2 * last.src[1] > settings.width * last.src[2]
          /\ (settings.width = 10 /\ last.src[1] = 2 * last.src[2] => last.rows = 2)
    /\ (last.kind = "error" /\ last.line = 132 /\ settings.height = 0
        /\ settings.width >= 1)
       => settings.width * video.H < 2 * video.W

\* a 4:3 source at width 10: the exact value 3.75 is truncated to 3 rows
C6_Witness ==
    /\ Rendered /\ settings.height = 0 /\ settings.width = 10
    /\ last.src = <<4, 3>> /\ last.rows = 3

\* C7: an unknown glyph-ramp selector or colour mode is rejected when the
\* settings are established: no output file is opened and no frame is read
\* while the settings hold one.
C7_SelectorsValidated ==
    (opened \/ nread > 0)
    => settings.char_set \in CharSets /\ settings.color_mode \in ColorModes

\* C8: with brightness 1.0 and every other setting at its default, every cell
\* of the grid holds the last character of the selected ramp.
C8_BrightestGlyph ==
    (/\ Rendered
     /\ settings.brightness = ROne /\ settings.contrast = ROne
     /\ settings.gamma = ROne /\ settings.blur = RZero
     /\ ~settings.edge_detection /\ ~settings.depth_effect /\ ~settings.invert)
    => last.index = RampLen(last.ramp) - 1

\* C9: with the depth effect enabled, the depth map is computed from the
\* adjusted frame at its source resolution, before the resize.
C9_DepthFromSource ==
    (Rendered /\ settings.depth_effect) => last.depthIn = last.src

\* position of a stage in the order brightness, contrast, gamma, blur, edge
\* extraction, invert (the resize of frame_to_ascii follows them)
Rank(stage) ==
    CASE stage = "brightness" -> 1
      [] stage = "contrast"   -> 2
      [] stage = "gamma"      -> 3
      [] stage = "blur"       -> 4
      [] stage = "edge"       -> 5
      [] stage = "invert"     -> 6
      [] stage = "resize"     -> 7

\* C10: the stages of apply_image_effects run in the order brightness,
\* contrast, gamma, blur, edge extraction, invert, whichever of them are
\* enabled: a returned grid went through exactly the enabled stages in that
\* order, a failed call through a prefix of them, and invert acts on the
\* output of edge extraction (an edge image of a uniform frame, all 0,
\* inverts to all 255).
C10_StageOrder ==
    (Rendered \/ FrameFailed) =>
        /\ \A i, j \in 1..Len(last.stages) :
              i < j => Rank(last.stages[i]) < Rank(last.stages[j])
        /\ Rendered =>
              /\ Contains(last.stages, "brightness") <=> settings.brightness # RZero
              /\ Contains(last.stages, "contrast") <=> settings.contrast # ROne
              /\ Contains(last.stages, "gamma") <=> settings.gamma # ROne
              /\ Contains(last.stages, "blur") <=> RLess(RZero, settings.blur)
              /\ Contains(last.stages, "edge") <=> settings.edge_detection
              /\ Contains(last.stages, "invert") <=> settings.invert
              /\ (settings.edge_detection /\ settings.invert
                  /\ ~settings.depth_effect) => last.sample = MaxSample

\* a grid that went through all six stages
C10_Witness ==
    /\ Rendered
    /\ last.stages = <<"brightness", "contrast", "gamma", "blur", "edge", "invert", "resize">>

\* C11: in convert_to_mp4 every non-space glyph of the grid, at every row i
\* and column j including the last ones, is drawn as a rectangle at
\* (j * 8, i * 16) of the image written for the frame.
C11_AllGlyphsDrawn ==
    (pc = "mp4loop" /\ Rendered /\ out # <<>>)
    => \A i \in 0..(last.rows - 1), j \in 0..(last.cols - 1) :
          last.index # 0
          => \E rc \in out[Len(out)].rects :
                rc.x0 = j * CharWidth /\ rc.y0 = i * CharHeight

====
